---- MODULE Spec2Model ----
(***************************************************************************)
(* Model of function_app.py: the blob trigger, the durable orchestrator    *)
(* process_document and its three activities analyze_pdf, summarize_text   *)
(* and write_doc.  Text is a sequence of one-character strings.  Python    *)
(* values carry a tag: Str(s), the dict {"content": s}, the dict           *)
(* {"blobName": b, "summary": d}, None, and Unset for a local variable     *)
(* that has not been assigned.                                             *)
(***************************************************************************)
EXTENDS Integers, Sequences, FiniteSets, TLC

\* ---- bounds of the model ----
NumInstances == 2
MaxCrashes == 1
MaxPages == 2
MaxLines == 2
MaxSec == 1

\* ---- program constants ----
max_number_of_attempts == 3

Instances == 1..NumInstances

StepNames == <<"analyze_pdf", "summarize_text", "write_doc">>

\* ---- Python values ----
Str(s) == [t |-> "str", v |-> s]
ContentDict(s) == [t |-> "dict", content |-> s]
NoneVal == [t |-> "None"]
Unset == [t |-> "unset"]
NoActivity == [name |-> "none", arg |-> Unset, uploaded |-> Unset, ret |-> Unset]

\* ---- text helpers ----
RECURSIVE IndexOf(_, _, _)
IndexOf(s, c, k) ==
    IF k > Len(s) THEN 0
    ELSE IF s[k] = c THEN k
    ELSE IndexOf(s, c, k + 1)

\* str.split(sep): the list of the segments between the separators
RECURSIVE split(_, _)
split(s, sep) ==
    LET k == IndexOf(s, sep, 1)
    IN  IF k = 0 THEN <<s>>
        ELSE <<SubSeq(s, 1, k - 1)>> \o split(SubSeq(s, k + 1, Len(s)), sep)

\* str.replace(old, new) for one-character old and new
replace(s, old, new) == [k \in 1..Len(s) |-> IF s[k] = old THEN new ELSE s[k]]

DigitChar == <<"0", "1", "2", "3", "4", "5", "6", "7", "8", "9">>

\* str(datetime.now()): the microseconds and their '.' are left out when
\* they are zero
datetime_str(ts) ==
    IF ts.us = 0 THEN <<DigitChar[ts.sec + 1]>>
    ELSE <<DigitChar[ts.sec + 1], ".", DigitChar[ts.us + 1]>>

TxtSuffix == <<".", "t", "x", "t">>

\* ---- inputs of the environment ----
ContainerPrefix == <<"i", "n", "p", "u", "t", "/">>
BlobNames == { <<"a">>, <<"r", ".", "p">>, <<"d", "/", "f", ".", "p">> }
Paths == { ContainerPrefix \o b : b \in BlobNames }

LineTexts == { <<"x">>, <<"y", ".">> }
RECURSIVE SeqsUpTo(_, _)
SeqsUpTo(S, n) ==
    IF n = 0 THEN { <<>> }
    ELSE LET shorter == SeqsUpTo(S, n - 1)
         IN  shorter \cup { Append(q, e) : q \in { r \in shorter : Len(r) = n - 1 }, e \in S }
PageSet == SeqsUpTo(LineTexts, MaxLines)
Docs == SeqsUpTo(PageSet, MaxPages)

Contents == { <<"s">>, <<"s", ".">> }
StatusCodes == { 200, 429, 500 }
Responses == [status_code : StatusCodes, content : Contents]

Timestamps == [sec : 1..MaxSec, us : {0, 5}]

VARIABLES
    status,      \* runtime status of each instance (durable)
    input,       \* client_input of each instance (durable)
    history,     \* recorded outputs of the completed activities (durable)
    failures,    \* failed attempts of the activity now retried (durable)
    pc,          \* position of the orchestrator function (in memory)
    blobName,    \* local variables of process_document (in memory)
    result,
    result2,
    result3,
    output,      \* value returned by process_document
    active,      \* activity invocation in flight (in memory): its name, its
                 \* argument, the name write_doc uploaded under, and the
                 \* value write_doc is about to return
    invocations, \* number of invocations of the activity at pc so far
    invoked,     \* names of the activities invoked so far
    retried,     \* whether an attempt of an activity has failed
    received,    \* argument of the latest invocation of each activity
    outputContainer, \* blobs of container "output": records name, data, by
    inputContainer,  \* names of the blobs of container "input"
    myblob,      \* name (path) of the blob each instance was started for
    arrivals,    \* number of blob arrivals blob_trigger has handled
    crashes      \* number of crashes of the host process so far

vars == <<status, input, history, failures, pc, blobName, result, result2,
          result3, output, active, invocations, invoked, retried,
          received, outputContainer, inputContainer, myblob, arrivals,
          crashes>>

\* ---- analyze_pdf: concatenation of the lines of the pages ----
\* variant: doc = line.content + doc, the lines of a page end up reversed
RECURSIVE page_text_prepend(_)
page_text_prepend(lines) ==
    IF lines = <<>> THEN <<>>
    ELSE page_text_prepend(Tail(lines)) \o Head(lines)

RECURSIVE page_text(_)
page_text(lines) ==
    IF lines = <<>> THEN <<>>
    ELSE Head(lines) \o page_text(Tail(lines))

RECURSIVE analyze_doc(_)
analyze_doc(pages) ==
    IF pages = <<>> THEN <<>>
    ELSE page_text(Head(pages)) \o analyze_doc(Tail(pages))

\* ---- write_doc: the names ----
summary_name(arg, ts) == arg.blobName.v \o <<"-">> \o datetime_str(ts)

\* variant: the name is used as it is
sanitizedSummary_asIs(summary) == summary

sanitizedSummary(summary) == replace(summary, ".", "-")
fileName(summary) == sanitizedSummary(summary) \o TxtSuffix
write_doc_result(summary) == summary \o TxtSuffix

\* ---- the retry policy of call_activity_with_retry ----
\* variant: the first attempt is not counted, one attempt too many
RetryExhausted_offByOne(n) == n > max_number_of_attempts

RetryExhausted(n) == n >= max_number_of_attempts

\* ---- process_document ----
\* variant: write_doc is called before summarize_text
PositionAfter_outOfOrder(h) ==
    IF Len(h) = 1 THEN "write_doc"
    ELSE IF Len(h) = 2 THEN "summarize_text"
    ELSE IF Len(h) < 3 THEN StepNames[Len(h) + 1] ELSE "return"

\* variant: the function returns after summarize_text, write_doc is skipped
PositionAfter_skipsWrite(h) == IF Len(h) < 2 THEN StepNames[Len(h) + 1] ELSE "return"

\* the position reached when the function is run against a history
PositionAfter(h) == IF Len(h) < 3 THEN StepNames[Len(h) + 1] ELSE "return"

\* variant: a replayed yield gives nothing back
Recorded_lost(h, k) == Unset

\* the value a yield gives back for the k-th activity, if recorded
Recorded(h, k) == IF Len(h) >= k THEN h[k].output ELSE Unset

\* variant: write_doc is given the extracted text in place of the summary
ActivityArg_textAsSummary(i) ==
    CASE pc[i] = "analyze_pdf" -> blobName[i]
      [] pc[i] = "summarize_text" -> result[i]
      [] pc[i] = "write_doc" ->
            [t |-> "dict", blobName |-> blobName[i], summary |-> ContentDict(result[i].v)]

\* the argument process_document passes to the activity it is at
ActivityArg(i) ==
    CASE pc[i] = "analyze_pdf" -> blobName[i]
      [] pc[i] = "summarize_text" -> result[i]
      [] pc[i] = "write_doc" ->
            [t |-> "dict", blobName |-> blobName[i], summary |-> result2[i]]

\* variant: finished instances are taken up again
Live_anyStarted(i) == status[i] # "NotStarted"

Live(i) == status[i] \in {"Pending", "Running"}

Init ==
    /\ status = [i \in Instances |-> "NotStarted"]
    /\ input = [i \in Instances |-> Unset]
    /\ history = [i \in Instances |-> <<>>]
    /\ failures = [i \in Instances |-> 0]
    /\ pc = [i \in Instances |-> "unloaded"]
    /\ blobName = [i \in Instances |-> Unset]
    /\ result = [i \in Instances |-> Unset]
    /\ result2 = [i \in Instances |-> Unset]
    /\ result3 = [i \in Instances |-> Unset]
    /\ output = [i \in Instances |-> Unset]
    /\ active = [i \in Instances |-> NoActivity]
    /\ invocations = [i \in Instances |-> 0]
    /\ invoked = [i \in Instances |-> {}]
    /\ retried = [i \in Instances |-> FALSE]
    /\ received = [i \in Instances |-> [n \in {"analyze_pdf", "summarize_text", "write_doc"} |-> Unset]]
    /\ outputContainer = {}
    /\ inputContainer = {}
    /\ myblob = [i \in Instances |-> <<>>]
    /\ arrivals = 0
    /\ crashes = 0

\* variant: the first segment of the path, the container name, is taken
blobName_of_container(name) == split(name, "/")[1]

\* line 24: myblob.name.split("/")[1], Python counting from 0
blobName_of(name) == split(name, "/")[2]

\* A blob arrives under path p and blob_trigger starts instance i for it.
blob_trigger(i, p) ==
    /\ status[i] = "NotStarted"
    /\ Len(split(p, "/")) >= 2
    /\ inputContainer' = inputContainer \cup {SubSeq(p, Len(ContainerPrefix) + 1, Len(p))}
    /\ myblob' = [myblob EXCEPT ![i] = p]
    /\ arrivals' = arrivals + 1
    /\ input' = [input EXCEPT ![i] = Str(blobName_of(p))]
    /\ status' = [status EXCEPT ![i] = "Pending"]
    /\ UNCHANGED <<history, failures, pc, blobName, result, result2, result3,
                   output, active, invocations, invoked, retried, received,
                   outputContainer, crashes>>

\* The engine runs process_document from its first line against the
\* history: a yield whose activity has a recorded output gives that output
\* back, and the function stops at the first yield that has none.
process_document(i) ==
    /\ Live(i)
    /\ pc[i] = "unloaded"
    /\ status' = [status EXCEPT ![i] = "Running"]
    /\ blobName' = [blobName EXCEPT ![i] = input[i]]
    /\ result' = [result EXCEPT ![i] = Recorded(history[i], 1)]
    /\ result2' = [result2 EXCEPT ![i] = Recorded(history[i], 2)]
    /\ result3' = [result3 EXCEPT ![i] = Recorded(history[i], 3)]
    /\ pc' = [pc EXCEPT ![i] = PositionAfter(history[i])]
    /\ UNCHANGED <<input, history, failures, output, active, invocations, invoked, retried, received,
                   outputContainer, inputContainer, myblob, arrivals, crashes>>

\* context.call_activity_with_retry: one attempt of the activity at pc[i].
call_activity_with_retry(i) ==
    /\ status[i] = "Running"
    /\ pc[i] \in {"analyze_pdf", "summarize_text", "write_doc"}
    /\ active[i] = NoActivity
    /\ active' = [active EXCEPT ![i] = [name |-> pc[i], arg |-> ActivityArg(i),
                                       uploaded |-> Unset, ret |-> Unset]]
    /\ invocations' = [invocations EXCEPT ![i] = @ + 1]
    /\ invoked' = [invoked EXCEPT ![i] = @ \cup {pc[i]}]
    /\ received' = [received EXCEPT ![i][pc[i]] = ActivityArg(i)]
    /\ UNCHANGED <<status, input, history, failures, pc, blobName, result,
                   result2, result3, output, retried, outputContainer,
                   inputContainer, myblob, arrivals, crashes>>

\* variant: one count of failed attempts for the whole instance
ActivityReturns_sharedBudget(i, v) ==
    LET name == active[i].name
    IN  /\ history' = [history EXCEPT ![i] = Append(@, [name |-> name, output |-> v])]
        /\ active' = [active EXCEPT ![i] = NoActivity]
        /\ result' = [result EXCEPT ![i] = IF name = "analyze_pdf" THEN v ELSE @]
        /\ result2' = [result2 EXCEPT ![i] = IF name = "summarize_text" THEN v ELSE @]
        /\ result3' = [result3 EXCEPT ![i] = IF name = "write_doc" THEN v ELSE @]
        /\ pc' = [pc EXCEPT ![i] = PositionAfter(history'[i])]
        /\ invocations' = [invocations EXCEPT ![i] = 0]
        /\ UNCHANGED <<status, input, failures, blobName, output, invoked,
                       retried, received, inputContainer, myblob, arrivals,
                       crashes>>

\* The activity in flight returns v: the output is recorded and the
\* orchestrator goes on from its yield.
ActivityReturns(i, v) ==
    LET name == active[i].name
    IN  /\ history' = [history EXCEPT ![i] = Append(@, [name |-> name, output |-> v])]
        /\ failures' = [failures EXCEPT ![i] = 0]
        /\ active' = [active EXCEPT ![i] = NoActivity]
        /\ result' = [result EXCEPT ![i] = IF name = "analyze_pdf" THEN v ELSE @]
        /\ result2' = [result2 EXCEPT ![i] = IF name = "summarize_text" THEN v ELSE @]
        /\ result3' = [result3 EXCEPT ![i] = IF name = "write_doc" THEN v ELSE @]
        /\ pc' = [pc EXCEPT ![i] = PositionAfter(history'[i])]
        /\ invocations' = [invocations EXCEPT ![i] = 0]
        /\ UNCHANGED <<status, input, blobName, output, invoked, retried,
                       received, inputContainer, myblob, arrivals, crashes>>

\* variant: the exception that uses up the attempts ends every instance
ActivityRaises_failsAll(i) ==
    /\ failures' = [failures EXCEPT ![i] = @ + 1]
    /\ active' = [active EXCEPT ![i] = NoActivity]
    /\ IF RetryExhausted(failures[i] + 1)
       THEN /\ status' = [j \in Instances |-> IF j = i \/ Live(j) THEN "Failed" ELSE status[j]]
            /\ pc' = [j \in Instances |-> IF j = i \/ Live(j) THEN "raised" ELSE pc[j]]
       ELSE UNCHANGED <<status, pc>>
    /\ retried' = [retried EXCEPT ![i] = TRUE]
    /\ UNCHANGED <<input, history, blobName, result, result2, result3, output,
                   invocations, invoked, received, inputContainer, myblob, arrivals, crashes>>

\* variant: the exception that uses up the attempts is not reported, the
\* instance stays Running
ActivityRaises_hangs(i) ==
    /\ failures' = [failures EXCEPT ![i] = @ + 1]
    /\ active' = [active EXCEPT ![i] = NoActivity]
    /\ IF RetryExhausted(failures[i] + 1)
       THEN /\ pc' = [pc EXCEPT ![i] = "raised"]
            /\ UNCHANGED status
       ELSE UNCHANGED <<status, pc>>
    /\ retried' = [retried EXCEPT ![i] = TRUE]
    /\ UNCHANGED <<input, history, blobName, result, result2, result3, output,
                   invocations, invoked, received, inputContainer, myblob,
                   arrivals, crashes>>

\* variant: the exception is swallowed and its text goes on as the output
ActivityRaises_fallback(i) ==
    LET name == active[i].name
        v == IF name = "summarize_text" THEN ContentDict(<<"e">>) ELSE Str(<<"e">>)
    IN  /\ name # "none"
        /\ history' = [history EXCEPT ![i] = Append(@, [name |-> name, output |-> v])]
        /\ active' = [active EXCEPT ![i] = NoActivity]
        /\ result' = [result EXCEPT ![i] = IF name = "analyze_pdf" THEN v ELSE @]
        /\ result2' = [result2 EXCEPT ![i] = IF name = "summarize_text" THEN v ELSE @]
        /\ result3' = [result3 EXCEPT ![i] = IF name = "write_doc" THEN v ELSE @]
        /\ pc' = [pc EXCEPT ![i] = PositionAfter(history'[i])]
        /\ invocations' = [invocations EXCEPT ![i] = 0]
        /\ retried' = [retried EXCEPT ![i] = TRUE]
        /\ UNCHANGED <<status, failures, input, blobName, output, invoked,
                       received, inputContainer, myblob, arrivals, crashes>>

\* The activity in flight raises: the attempt is counted, and when the
\* attempts are used up the exception reaches process_document, which does
\* not catch it.
ActivityRaises(i) ==
    /\ failures' = [failures EXCEPT ![i] = @ + 1]
    /\ active' = [active EXCEPT ![i] = NoActivity]
    /\ IF RetryExhausted(failures[i] + 1)
       THEN /\ status' = [status EXCEPT ![i] = "Failed"]
            /\ pc' = [pc EXCEPT ![i] = "raised"]
       ELSE UNCHANGED <<status, pc>>
    /\ retried' = [retried EXCEPT ![i] = TRUE]
    /\ UNCHANGED <<input, history, blobName, result, result2, result3, output,
                   invocations, invoked, received, inputContainer, myblob, arrivals, crashes>>

analyze_pdf_returns(i, pages) ==
    /\ active[i].name = "analyze_pdf"
    /\ active[i].arg.v \in inputContainer
    /\ ActivityReturns(i, Str(analyze_doc(pages)))
    /\ UNCHANGED outputContainer

\* download_blob or begin_analyze_document raises
analyze_pdf_raises(i) ==
    /\ active[i].name = "analyze_pdf"
    /\ ActivityRaises(i)
    /\ UNCHANGED outputContainer

\* variant: the status code is not looked at, the body of any answer is
\* returned as the summary
summarize_text_anyStatus(i, response) ==
    /\ active[i].name = "summarize_text"
    /\ ActivityReturns(i, ContentDict(response.content))
    /\ UNCHANGED outputContainer

\* lines 95-105: the answer of requests.post decides the attempt
summarize_text(i, response) ==
    /\ active[i].name = "summarize_text"
    /\ IF response.status_code # 200
       THEN ActivityRaises(i)
       ELSE ActivityReturns(i, ContentDict(response.content))
    /\ UNCHANGED outputContainer

\* requests.post raises
summarize_text_post_raises(i) ==
    /\ active[i].name = "summarize_text"
    /\ ActivityRaises(i)
    /\ UNCHANGED outputContainer

\* variant: get_container_client("input"), the summary goes to the
\* container the trigger watches
write_doc_upload_toInput(i, ts) ==
    /\ active[i].name = "write_doc"
    /\ active[i].ret = Unset
    /\ LET summary == summary_name(active[i].arg, ts)
       IN  IF fileName(summary) \in inputContainer
           THEN ActivityRaises(i) /\ UNCHANGED outputContainer
           ELSE /\ inputContainer' = inputContainer \cup {fileName(summary)}
                /\ active' = [active EXCEPT ![i].uploaded = Str(fileName(summary)),
                                             ![i].ret = Str(write_doc_result(summary))]
                /\ UNCHANGED <<status, input, history, failures, pc, blobName,
                               result, result2, result3, output, invocations,
                               invoked, retried, received, outputContainer,
                               myblob, arrivals, crashes>>

\* write_doc up to and including upload_blob, at time ts; upload_blob
\* raises when a blob of that name exists
write_doc_upload(i, ts) ==
    /\ active[i].name = "write_doc"
    /\ active[i].ret = Unset
    /\ LET summary == summary_name(active[i].arg, ts)
       IN  IF \E b \in outputContainer : b.name = fileName(summary)
           THEN ActivityRaises(i) /\ UNCHANGED outputContainer
           ELSE /\ outputContainer' = outputContainer \cup
                       {[name |-> fileName(summary),
                         data |-> active[i].arg.summary.content,
                         by |-> i]}
                /\ active' = [active EXCEPT ![i].uploaded = Str(fileName(summary)),
                                             ![i].ret = Str(write_doc_result(summary))]
                /\ UNCHANGED <<status, input, history, failures, pc, blobName,
                               result, result2, result3, output, invocations,
                               invoked, retried, received,
                               inputContainer, myblob, arrivals, crashes>>

\* upload_blob raises and writes nothing
write_doc_upload_raises(i) ==
    /\ active[i].name = "write_doc"
    /\ active[i].ret = Unset
    /\ ActivityRaises(i)
    /\ UNCHANGED outputContainer

write_doc_returns(i) ==
    /\ active[i].name = "write_doc"
    /\ active[i].ret # Unset
    /\ ActivityReturns(i, active[i].ret)
    /\ UNCHANGED outputContainer

\* line 43: the function returns what logging.info returns
process_document_return(i) ==
    /\ status[i] = "Running"
    /\ pc[i] = "return"
    /\ output' = [output EXCEPT ![i] = NoneVal]
    /\ status' = [status EXCEPT ![i] = "Completed"]
    /\ pc' = [pc EXCEPT ![i] = "done"]
    /\ UNCHANGED <<input, history, failures, blobName, result, result2,
                   result3, active, invocations, invoked, retried, received,
                   outputContainer,
                   inputContainer, myblob, arrivals, crashes>>

\* The host process stops and starts again: what is in memory is lost, the
\* recorded state stays, and the instances that have not ended are to be
\* run again from their history.
Crash ==
    /\ crashes < MaxCrashes
    /\ crashes' = crashes + 1
    /\ active' = [i \in Instances |-> NoActivity]
    /\ pc' = [i \in Instances |-> IF Live(i) THEN "unloaded" ELSE pc[i]]
    /\ blobName' = [i \in Instances |-> Unset]
    /\ result' = [i \in Instances |-> Unset]
    /\ result2' = [i \in Instances |-> Unset]
    /\ result3' = [i \in Instances |-> Unset]
    /\ UNCHANGED <<status, input, history, failures, output, invocations,
                   invoked, retried, received, outputContainer,
                   inputContainer, myblob, arrivals>>

\* ---- one instance, all inputs ----
Next ==
    \/ \E p \in Paths : blob_trigger(1, p)
    \/ process_document(1)
    \/ call_activity_with_retry(1)
    \/ \E pages \in Docs : analyze_pdf_returns(1, pages)
    \/ analyze_pdf_raises(1)
    \/ \E response \in Responses : summarize_text(1, response)
    \/ summarize_text_post_raises(1)
    \/ \E ts \in Timestamps : write_doc_upload(1, ts)
    \/ write_doc_upload_raises(1)
    \/ write_doc_returns(1)
    \/ process_document_return(1)
    \/ Crash

Spec == Init /\ [][Next]_vars

\* ---- one instance, all inputs, every enabled step eventually taken ----
Engine(i) ==
    \/ process_document(i)
    \/ call_activity_with_retry(i)
    \/ \E pages \in Docs : analyze_pdf_returns(i, pages)
    \/ analyze_pdf_raises(i)
    \/ \E response \in Responses : summarize_text(i, response)
    \/ summarize_text_post_raises(i)
    \/ \E ts \in Timestamps : write_doc_upload(i, ts)
    \/ write_doc_upload_raises(i)
    \/ write_doc_returns(i)
    \/ process_document_return(i)

FairSpec == Spec /\ WF_vars(Engine(1))

\* ---- all instances at once, few inputs ----
ConcPaths == { ContainerPrefix \o <<"r", ".", "p">> }
ConcDocs == { << << <<"x">> >> >> }
ConcResponses == [status_code : {200, 500}, content : { <<"s">> }]
ConcTimestamps == [sec : {1}, us : {0, 5}]

NextConc ==
    \/ \E i \in Instances, p \in ConcPaths : blob_trigger(i, p)
    \/ \E i \in Instances : process_document(i)
    \/ \E i \in Instances : call_activity_with_retry(i)
    \/ \E i \in Instances, pages \in ConcDocs : analyze_pdf_returns(i, pages)
    \/ \E i \in Instances : analyze_pdf_raises(i)
    \/ \E i \in Instances, response \in ConcResponses : summarize_text(i, response)
    \/ \E i \in Instances : summarize_text_post_raises(i)
    \/ \E i \in Instances, ts \in ConcTimestamps : write_doc_upload(i, ts)
    \/ \E i \in Instances : write_doc_upload_raises(i)
    \/ \E i \in Instances : write_doc_returns(i)
    \/ \E i \in Instances : process_document_return(i)
    \/ Crash

SpecConc == Init /\ [][NextConc]_vars

EngineConc(i) ==
    \/ process_document(i)
    \/ call_activity_with_retry(i)
    \/ \E pages \in ConcDocs : analyze_pdf_returns(i, pages)
    \/ analyze_pdf_raises(i)
    \/ \E response \in ConcResponses : summarize_text(i, response)
    \/ summarize_text_post_raises(i)
    \/ \E ts \in ConcTimestamps : write_doc_upload(i, ts)
    \/ write_doc_upload_raises(i)
    \/ write_doc_returns(i)
    \/ process_document_return(i)

\* ---- properties ----
RecordedNames(i) == [k \in 1..Len(history[i]) |-> history[i][k].name]
\* a step of the model that begins an invocation of activity n for instance i
Invokes(i, n) == active[i].name = "none" /\ active'[i].name = n
CompletedInOrder(i) == status[i] = "Completed" /\ RecordedNames(i) = StepNames
Exhausted(i) == status[i] = "Failed" /\ failures[i] = max_number_of_attempts

\* C1: a started instance in which no step uses up its attempts ends in
\* Completed with exactly three recorded outputs, those of analyze_pdf,
\* summarize_text and write_doc in this order; the only other end is
\* Failed with the attempts of a step used up.
C1_CompletesWithThreeOutputs ==
    \A i \in Instances :
        [](status[i] \in {"Pending", "Running"} => <>(CompletedInOrder(i) \/ Exhausted(i)))

C1_Witness ==
    /\ CompletedInOrder(1)
    /\ Len(history[1]) = 3
    /\ retried[1]

\* C2: an instance is Failed exactly when its current step has failed
\* max_number_of_attempts times in a row, and then no step after that step
\* has ever been invoked and none is in flight.
C2_ExhaustionFailsAndStops ==
    \A i \in Instances :
        /\ (status[i] = "Failed") <=> (failures[i] >= max_number_of_attempts)
        /\ status[i] = "Failed" =>
              /\ failures[i] = max_number_of_attempts
              /\ Len(history[i]) < 3
              /\ active[i] = NoActivity
              /\ \A k \in 1..3 : k > Len(history[i]) + 1 => StepNames[k] \notin invoked[i]

C2_Witness ==
    /\ status[1] = "Failed"
    /\ Len(history[1]) = 1
    /\ invocations[1] = max_number_of_attempts
    /\ invoked[1] = {"analyze_pdf", "summarize_text"}

\* what the instance received, recorded and ended with
Outcome(i) ==
    [in1 |-> received[i]["analyze_pdf"],
     in2 |-> received[i]["summarize_text"],
     in3 |-> received[i]["write_doc"],
     outputs |-> [k \in 1..Len(history[i]) |-> history[i][k].output],
     final |-> status[i]]

\* the outcomes of the runs for identifier b in which every activity
\* succeeds on its first attempt
FirstAttemptOutcomes(b) ==
    { [in1 |-> b,
       in2 |-> Str(analyze_doc(d)),
       in3 |-> [t |-> "dict", blobName |-> b, summary |-> ContentDict(c)],
       outputs |-> << Str(analyze_doc(d)),
                      ContentDict(c),
                      Str(write_doc_result(summary_name([blobName |-> b], ts))) >>,
       final |-> "Completed"] : d \in Docs, c \in Contents, ts \in Timestamps }

\* C3: a completed instance, whatever attempts of its steps failed before
\* they succeeded, has the step inputs, the recorded outputs and the final
\* state of a run in which every step succeeds on its first attempt.
C3_FailedAttemptsInvisible ==
    \A i \in Instances :
        status[i] = "Completed" => Outcome(i) \in FirstAttemptOutcomes(input[i])

C3_Witness ==
    /\ status[1] = "Completed"
    /\ crashes = 0
    /\ retried[1]

\* C4: once an output of an activity is recorded, no step (a replay after a
\* crash included) begins an invocation of that activity, and whenever summarize_text
\* is in flight, before or after a crash, its argument is the recorded
\* output of analyze_pdf.
C4_RecoveryDoesNotReinvoke ==
    [][\A i \in Instances :
          /\ \A k \in 1..Len(history[i]) : ~Invokes(i, StepNames[k])
          /\ active'[i].name = "summarize_text" =>
                /\ Len(history'[i]) = 1
                /\ active'[i].arg = history'[i][1].output]_vars

\* summarize_text is in flight for the second time without a failed
\* attempt: the crash came after the output of analyze_pdf was recorded
C4_Witness ==
    /\ crashes = 1
    /\ Len(history[1]) = 1
    /\ failures[1] = 0
    /\ invocations[1] = 2
    /\ active[1].name = "summarize_text"

\* C5: the name write_doc returns is the name it gave to upload_blob.
C5_ReturnedNameIsWrittenName ==
    \A i \in Instances :
        (active[i].name = "write_doc" /\ active[i].ret # Unset) =>
            active[i].ret = active[i].uploaded

\* C6: every blob of the output container is named by the identifier, '-'
\* and the timestamp, every '.' of them replaced by '-', followed by
\* '.txt': the only '.' of the name is that of the suffix.
C6_WrittenNameSanitized ==
    \A b \in outputContainer :
        LET n == Len(b.name) - Len(TxtSuffix)
        IN  /\ n >= 0
            /\ SubSeq(b.name, n + 1, Len(b.name)) = TxtSuffix
            /\ \A k \in 1..n : b.name[k] # "."
            /\ \E ts \in Timestamps :
                  SubSeq(b.name, 1, n) =
                      replace(input[b.by].v \o <<"-">> \o datetime_str(ts), ".", "-")

\* a blob written for an identifier with a '.' at a time with microseconds
C6_Witness ==
    \E b \in outputContainer :
        /\ IndexOf(input[b.by].v, ".", 1) > 0
        /\ Len(b.name) = Len(input[b.by].v) + 4 + Len(TxtSuffix)

\* C7: the value process_document returns for a completed instance is the
\* name write_doc returned.
C7_FinalResultIsName ==
    \A i \in Instances :
        status[i] = "Completed" => output[i] = history[i][3].output

\* C8: once an instance is Completed or Failed, no step changes its state,
\* its recorded outputs or its result, invokes one of its activities or
\* moves its orchestrator.
C8_TerminalStates ==
    [][\A i \in Instances :
          status[i] \in {"Completed", "Failed"} =>
              /\ status'[i] = status[i]
              /\ history'[i] = history[i]
              /\ output'[i] = output[i]
              /\ invoked'[i] = invoked[i]
              /\ invocations'[i] = invocations[i]
              /\ active'[i] = NoActivity
              /\ pc'[i] = pc[i]]_vars

\* a crash after the instance completed: the locals are gone and were not
\* restored by a replay
C8_Witness ==
    /\ status[1] = "Completed"
    /\ crashes = 1
    /\ result3[1] = Unset

\* C9: the recorded outputs are those of a prefix of analyze_pdf,
\* summarize_text, write_doc; an activity has been invoked only if the
\* output of the one before it is recorded; and an activity in flight is
\* the first one without a recorded output.
C9_StepOrder ==
    \A i \in Instances :
        /\ Len(history[i]) <= 3
        /\ RecordedNames(i) = SubSeq(StepNames, 1, Len(history[i]))
        /\ \A k \in 2..3 : StepNames[k] \in invoked[i] => Len(history[i]) >= k - 1
        /\ active[i].name # "none" =>
              /\ Len(history[i]) < 3
              /\ active[i].name = StepNames[Len(history[i]) + 1]
        /\ pc[i] \in {"analyze_pdf", "summarize_text", "write_doc"} =>
              /\ Len(history[i]) < 3
              /\ pc[i] = StepNames[Len(history[i]) + 1]

C9_Witness ==
    /\ active[1].name = "write_doc"
    /\ Len(history[1]) = 2
    /\ invocations[1] = 2

\* what belongs to instance i
InstanceState(i) ==
    <<status[i], input[i], history[i], failures[i], pc[i], blobName[i],
      result[i], result2[i], result3[i], output[i], active[i],
      invocations[i], invoked[i], retried[i], received[i], myblob[i]>>

\* C10: the step in which an instance uses up its attempts and becomes
\* Failed changes nothing of any other instance; an instance is Failed only
\* by using up its own attempts; and an instance that has not ended can
\* always take a step, whatever the other instances have come to.
C10_FailureIsolated ==
    /\ [][\A i \in Instances :
            (status[i] # "Failed" /\ status'[i] = "Failed") =>
                /\ failures'[i] = max_number_of_attempts
                /\ \A j \in Instances \ {i} : InstanceState(j)' = InstanceState(j)]_vars
    /\ [](\A j \in Instances :
            /\ status[j] = "Failed" => failures[j] = max_number_of_attempts
            /\ Live(j) => ENABLED EngineConc(j))

\* one instance Failed, another Completed after it
C10_Witness ==
    /\ status[1] = "Failed"
    /\ status[2] = "Completed"
    /\ ~retried[2]

\* the part of a path between the container name with its '/' and the
\* next '/', or the end of the path
SegmentAfterContainer(p) ==
    LET rest == SubSeq(p, Len(ContainerPrefix) + 1, Len(p))
        k == IndexOf(rest, "/", 1)
    IN  IF k = 0 THEN rest ELSE SubSeq(rest, 1, k - 1)

Started == { i \in Instances : status[i] # "NotStarted" }

\* C11: there are as many started instances as blob arrivals handled, a
\* step starts at most one instance, and the input of a started instance
\* is the segment of its blob's path that follows the container name.
C11_OneInstancePerArrival ==
    /\ [](/\ Cardinality(Started) = arrivals
          /\ \A i \in Started :
                /\ SubSeq(myblob[i], 1, Len(ContainerPrefix)) = ContainerPrefix
                /\ input[i] = Str(SegmentAfterContainer(myblob[i])))
    /\ [][Cardinality(Started') <= Cardinality(Started) + 1]_vars

\* an instance started for the blob d/f.p of container input
C11_Witness ==
    /\ myblob[1] = ContainerPrefix \o <<"d", "/", "f", ".", "p">>
    /\ input[1] = Str(<<"d">>)
    /\ status[1] = "Running"

\* C12 as stated: no activity of an instance is invoked more than
\* max_number_of_attempts times.
C12_AtMostThreeInvocations ==
    \A i \in Instances : invocations[i] <= max_number_of_attempts

\* C12 amended: the failed attempts of the current step are at most
\* max_number_of_attempts, each of them an invocation of that step; a step
\* starts with no failed attempt, whatever failed before it; an instance is
\* Failed only after max_number_of_attempts invocations of its step; and a
\* step is invoked more often than it has outcomes only by the invocations
\* that a crash cut off.
C12_BudgetPerStep ==
    \A i \in Instances :
        /\ failures[i] <= max_number_of_attempts
        /\ failures[i] <= invocations[i]
        /\ invocations[i] = 0 => failures[i] = 0
        /\ invocations[i] <= failures[i] + crashes + 1
        /\ status[i] = "Failed" => invocations[i] >= max_number_of_attempts

\* analyze_pdf failed before it succeeded, no crash, and summarize_text is
\* about to get its first attempt
C12_Witness ==
    /\ Len(history[1]) = 1
    /\ retried[1]
    /\ crashes = 0
    /\ invocations[1] = 0
    /\ pc[1] = "summarize_text"

\* C13: whenever summarize_text is in flight or has been invoked, the
\* argument it got is the recorded output of analyze_pdf; whenever
\* write_doc is in flight or has been invoked, the argument it got is the
\* pair of the input the instance was started with and the recorded output
\* of summarize_text; analyze_pdf gets the input of the instance.
C13_PayloadThreading ==
    \A i \in Instances :
        LET WriteArg == [t |-> "dict", blobName |-> input[i],
                         summary |-> history[i][2].output]
        IN  /\ "analyze_pdf" \in invoked[i] => received[i]["analyze_pdf"] = input[i]
            /\ "summarize_text" \in invoked[i] =>
                  /\ Len(history[i]) >= 1
                  /\ received[i]["summarize_text"] = history[i][1].output
            /\ "write_doc" \in invoked[i] =>
                  /\ Len(history[i]) >= 2
                  /\ received[i]["write_doc"] = WriteArg
            /\ active[i].name # "none" => active[i].arg = received[i][active[i].name]

\* write_doc in flight for the third time, after failed attempts and a crash
C13_Witness ==
    /\ active[1].name = "write_doc"
    /\ invocations[1] = 3
    /\ failures[1] = 1
    /\ crashes = 1

\* C14: with every enabled step of the engine eventually taken and every
\* call returning or raising, an instance that has been started is
\* eventually Completed or Failed.
C14_Terminates ==
    \A i \in Instances :
        (status[i] # "NotStarted") ~> (status[i] \in {"Completed", "Failed"})

\* write_doc used up its attempts
C14_Witness ==
    /\ status[1] = "Failed"
    /\ Len(history[1]) = 2
    /\ failures[1] = max_number_of_attempts

RECURSIVE JoinFromEnd(_)
JoinFromEnd(texts) ==
    IF Len(texts) = 0 THEN <<>>
    ELSE JoinFromEnd(SubSeq(texts, 1, Len(texts) - 1)) \o texts[Len(texts)]

\* the lines of all pages: those of page 1 in their order, then those of
\* page 2, and so on
AllLines(pages) == JoinFromEnd(pages)

\* where the k-th of the lines begins in their joined text, counted from 0
RECURSIVE Offset(_, _)
Offset(lines, k) ==
    IF k <= 1 THEN 0 ELSE Offset(lines, k - 1) + Len(lines[k - 1])

\* C16: a step in which analyze_pdf returns for the pages the collaborator
\* gave records as its output a text made of the texts of all lines and
\* nothing else, each line where the lines before it end, the lines of a
\* page in their order and page after page; with no page or no line the
\* output is the empty string.
C16_ConcatenatesInOrder ==
    [][\A i \in Instances : \A pages \in Docs :
          analyze_pdf_returns(i, pages) =>
              LET lines == AllLines(pages)
                  out == history'[i][1].output
              IN  /\ Len(history'[i]) = 1
                  /\ history'[i][1].name = "analyze_pdf"
                  /\ out.t = "str"
                  /\ Len(out.v) = Offset(lines, Len(lines) + 1)
                  /\ \A k \in 1..Len(lines) :
                        SubSeq(out.v, Offset(lines, k) + 1,
                               Offset(lines, k) + Len(lines[k])) = lines[k]
                  /\ lines = <<>> => out = Str(<<>>)]_vars

\* the recorded text of two pages of two lines each: x, y. and y., x
C16_Witness ==
    /\ Len(history[1]) >= 1
    /\ history[1][1].output = Str(<<"x", "y", ".", "y", ".", "x">>)

\* the name of a blob of container input, from its path
NameInContainer(p) == SubSeq(p, Len(ContainerPrefix) + 1, Len(p))

\* C17: the blobs of the input container are those whose arrival started
\* an instance, none is written by a step of the pipeline; a step that
\* writes to the output container leaves the input container alone and
\* starts no instance; and the input container changes only in a step in
\* which a blob arrives, which writes nothing to the output container.
C17_InputContainerReadOnly ==
    /\ [](inputContainer = { NameInContainer(myblob[i]) : i \in Started })
    /\ [][/\ outputContainer' # outputContainer =>
                /\ inputContainer' = inputContainer
                /\ arrivals' = arrivals
                /\ Started' = Started
          /\ inputContainer' # inputContainer =>
                /\ arrivals' = arrivals + 1
                /\ outputContainer' = outputContainer
                /\ active' = active]_vars

\* the instance of the only arrival completed and its summary is in the
\* output container
C17_Witness ==
    /\ status[1] = "Completed"
    /\ arrivals = 1
    /\ Cardinality(inputContainer) = 1
    /\ \E b \in outputContainer : b.by = 1

\* the blobs instance i has written to the output container
WrittenBy(i) == { b \in outputContainer : b.by = i }

\* C18: a Completed instance has written exactly one blob to the output
\* container, and an instance Failed at analyze_pdf or summarize_text has
\* written none.
C18_ExactlyOneSummary ==
    \A i \in Instances :
        /\ status[i] = "Completed" => Cardinality(WrittenBy(i)) = 1
        /\ (status[i] = "Failed" /\ Len(history[i]) < 2) => WrittenBy(i) = {}

====
